---- MODULE Spec2Model ----
(***************************************************************************)
(* SequentialRaii (src/seqraii.h): an ordered list of steps, each holding  *)
(* an initialization lambda, an uninitialization lambda and the flag       *)
(* m_isInitialized.  initialize() runs the steps forward and rolls back on *)
(* the first failure, uninitialize() runs them backward; the destructor    *)
(* and both move operations call uninitialize().                           *)
(*                                                                         *)
(* The lambdas are opaque to the container: what an invocation does (it    *)
(* returns true, returns false, or throws) is an input, chosen when the    *)
(* lambda is invoked.  Every call records the lambdas it invoked, in       *)
(* order, in the variable trace, and its pre-state and result in the       *)
(* variable last; balance counts, for every step, the initializations not *)
(* yet undone.                                                             *)
(***************************************************************************)
EXTENDS Integers, Sequences, FiniteSets

\* Bounds of the model.
MaxSteps == 3      \* Step objects ever created by addStep

\* The SequentialRaii objects of the program: a move has a destination and a
\* source (seqraii and targetSeqraii of test_move_operation).
Seqs == {"seqraii", "targetSeqraii"}

\* What one invocation of an initialization lambda can do.
InitOutcomes == {"true", "false", "throw"}
\* What one invocation of an uninitialization lambda can do.
UninitOutcomes == {"return", "throw"}

VARIABLES
    status,     \* status[s]: "unborn", "alive" or "dead" (lifetime of object s)
    m_steps,    \* m_steps[s]: the vector of Step objects object s owns
    nextId,     \* number of Step objects created so far
    last,       \* the last call: operation, objects, result, pre-state
    trace,      \* lambdas the last call invoked, in order
    balance     \* balance[id]: successful invocations of the initialization
                \* lambda of step id so far, minus the invocations of its
                \* uninitialization lambda

vars == <<status, m_steps, nextId, last, trace, balance>>

----------------------------------------------------------------------------
\* Helpers on sequences.

RECURSIVE Reverse(_)
Reverse(q) == IF q = <<>> THEN <<>> ELSE Append(Reverse(Tail(q)), Head(q))

RECURSIVE Select(_, _)
\* The subsequence of the steps whose flag equals b.
Select(q, b) ==
    IF q = <<>> THEN <<>>
    ELSE IF Head(q).m_isInitialized = b
         THEN <<Head(q)>> \o Select(Tail(q), b)
         ELSE Select(Tail(q), b)

Ids(q) == [i \in 1..Len(q) |-> q[i].id]
IdSet(q) == {q[i].id : i \in 1..Len(q)}

\* A trace without the outcomes: which lambda of which step, in order.
Calls(tr) == [i \in 1..Len(tr) |-> <<tr[i].kind, tr[i].id>>]

----------------------------------------------------------------------------
\* Step<Init, Uninit>

\* A Step as constructed by addStep: m_isInitialized = false.  id names the
\* object (the pair of lambdas it holds).
NewStep(id) == [id |-> id, m_isInitialized |-> FALSE]

\* Step::init ending with `return true`: the result of the lambda is lost.
StepInit_retTrue(step, outcome) ==
    IF ~step.m_isInitialized
    THEN LET flag == IF outcome = "throw" THEN step.m_isInitialized
                     ELSE outcome = "true"
         IN [step |-> [step EXCEPT !.m_isInitialized = flag],
             invoked |-> TRUE, outcome |-> outcome, ret |-> TRUE,
             escaped |-> FALSE]
    ELSE [step |-> step, invoked |-> FALSE, outcome |-> "none",
          ret |-> TRUE, escaped |-> FALSE]

\* Step::init setting the flag before it calls the lambda: a lambda that
\* throws leaves the flag set.
StepInit_flagBeforeCall(step, outcome) ==
    IF ~step.m_isInitialized
    THEN LET flag == IF outcome = "throw" THEN TRUE ELSE outcome = "true"
         IN [step |-> [step EXCEPT !.m_isInitialized = flag],
             invoked |-> TRUE, outcome |-> outcome, ret |-> flag,
             escaped |-> FALSE]
    ELSE [step |-> step, invoked |-> FALSE, outcome |-> "none",
          ret |-> step.m_isInitialized, escaped |-> FALSE]

\* Step::init without the try block: an exception of the lambda leaves it.
StepInit_noCatch(step, outcome) ==
    IF ~step.m_isInitialized
    THEN LET flag == IF outcome = "throw" THEN step.m_isInitialized
                     ELSE outcome = "true"
         IN [step |-> [step EXCEPT !.m_isInitialized = flag],
             invoked |-> TRUE, outcome |-> outcome, ret |-> flag,
             escaped |-> (outcome = "throw")]
    ELSE [step |-> step, invoked |-> FALSE, outcome |-> "none",
          ret |-> step.m_isInitialized, escaped |-> FALSE]

\* Step::init with `m_isInitialized = true` after the call of the lambda,
\* whatever it returned.
StepInit_alwaysSet(step, outcome) ==
    IF ~step.m_isInitialized
    THEN LET flag == IF outcome = "throw" THEN step.m_isInitialized ELSE TRUE
         IN [step |-> [step EXCEPT !.m_isInitialized = flag],
             invoked |-> TRUE, outcome |-> outcome, ret |-> flag,
             escaped |-> FALSE]
    ELSE [step |-> step, invoked |-> FALSE, outcome |-> "none",
          ret |-> step.m_isInitialized, escaped |-> FALSE]

\* Step::init without the test of the flag: the lambda always runs.
StepInit_noCheck(step, outcome) ==
    LET flag == IF outcome = "throw" THEN step.m_isInitialized
                ELSE outcome = "true"
    IN [step |-> [step EXCEPT !.m_isInitialized = flag],
        invoked |-> TRUE, outcome |-> outcome, ret |-> flag,
        escaped |-> FALSE]

\* Step::init with the initialization lambda doing `outcome` if invoked.
\* The lambda runs only when the flag is clear; the flag is assigned the
\* lambda's result, and stays as it was when the lambda throws (the
\* catch-all swallows the exception).  The result tells the step after the
\* call, whether the lambda ran and what it did, the value returned, and
\* whether an exception left the call.
StepInit(step, outcome) ==
    IF ~step.m_isInitialized
    THEN LET flag == IF outcome = "throw" THEN step.m_isInitialized
                     ELSE outcome = "true"
         IN [step |-> [step EXCEPT !.m_isInitialized = flag],
             invoked |-> TRUE, outcome |-> outcome, ret |-> flag,
             escaped |-> FALSE]
    ELSE [step |-> step, invoked |-> FALSE, outcome |-> "none",
          ret |-> step.m_isInitialized, escaped |-> FALSE]

\* Step::uninit without the test of the flag: the lambda always runs.
StepUninit_noCheck(step, outcome) ==
    [step |-> [step EXCEPT !.m_isInitialized = FALSE],
     invoked |-> TRUE, outcome |-> outcome, escaped |-> FALSE]

\* Step::uninit without the final `m_isInitialized = false`.
StepUninit_keepFlag(step, outcome) ==
    [step |-> step,
     invoked |-> step.m_isInitialized,
     outcome |-> IF step.m_isInitialized THEN outcome ELSE "none",
     escaped |-> FALSE]

\* Step::uninit clearing the flag inside the try block, after the lambda: a
\* lambda that throws leaves the flag set.
StepUninit_keepOnThrow(step, outcome) ==
    [step |-> [step EXCEPT !.m_isInitialized =
                   step.m_isInitialized /\ outcome = "throw"],
     invoked |-> step.m_isInitialized,
     outcome |-> IF step.m_isInitialized THEN outcome ELSE "none",
     escaped |-> FALSE]

\* Step::uninit without the try block: an exception of the lambda leaves it
\* before the flag is cleared.
StepUninit_noCatch(step, outcome) ==
    LET thrown == step.m_isInitialized /\ outcome = "throw"
    IN [step |-> [step EXCEPT !.m_isInitialized = thrown],
        invoked |-> step.m_isInitialized,
        outcome |-> IF step.m_isInitialized THEN outcome ELSE "none",
        escaped |-> thrown]

\* Step::uninit with the uninitialization lambda doing `outcome` if invoked.
\* The lambda runs only when the flag is set; an exception is swallowed; the
\* flag is cleared in every case.
StepUninit(step, outcome) ==
    [step |-> [step EXCEPT !.m_isInitialized = FALSE],
     invoked |-> step.m_isInitialized,
     outcome |-> IF step.m_isInitialized THEN outcome ELSE "none",
     escaped |-> FALSE]

\* The entry a call of init() or uninit() adds to the trace.
Invocation(tr, kind, r) ==
    IF r.invoked
    THEN Append(tr, [kind |-> kind, id |-> r.step.id, outcome |-> r.outcome])
    ELSE tr

\* The balance after a call that invoked the lambdas of tr: an initialization
\* lambda that returned true adds one for its step, an uninitialization
\* lambda takes one away.
Settle(b, tr) ==
    [id \in DOMAIN b |->
        b[id]
        + Cardinality({p \in 1..Len(tr) : /\ tr[p].id = id
                                          /\ tr[p].kind = "init"
                                          /\ tr[p].outcome = "true"})
        - Cardinality({p \in 1..Len(tr) : /\ tr[p].id = id
                                          /\ tr[p].kind = "uninit"})]

----------------------------------------------------------------------------
\* SequentialRaii.  What a lambda does is decided when it is invoked, so a
\* call has a set of possible results, one for each way its lambdas behave.

\* The loop of uninitialize(): from rbegin() to rend(), i.e. index i down
\* to 1.  An exception leaving a noexcept function ends the program
\* (escaped).
RECURSIVE UninitializeLoop(_, _, _)
UninitializeLoop(steps, i, tr) ==
    IF i = 0 THEN {[steps |-> steps, trace |-> tr, escaped |-> FALSE]}
    ELSE UNION {
        LET tr2 == Invocation(tr, "uninit", r)
            steps2 == [steps EXCEPT ![i] = r.step]
        IN IF r.escaped
           THEN {[steps |-> steps2, trace |-> tr2, escaped |-> TRUE]}
           ELSE UninitializeLoop(steps2, i - 1, tr2)
        : r \in {StepUninit(steps[i], o) : o \in UninitOutcomes}}

\* uninitialize() iterating from begin() to end().
uninitialize_forward(steps, tr) ==
    {[steps |-> Reverse(u.steps), trace |-> u.trace, escaped |-> u.escaped] :
        u \in UninitializeLoop(Reverse(steps), Len(steps), tr)}

\* uninitialize() with a loop that begins after rbegin(): the last step is
\* left out.
uninitialize_skipLast(steps, tr) ==
    IF steps = <<>> THEN UninitializeLoop(steps, 0, tr)
    ELSE UninitializeLoop(steps, Len(steps) - 1, tr)

\* uninitialize() with a loop that ends before rend(): the first step is
\* left out.
uninitialize_skipFirst(steps, tr) ==
    IF steps = <<>> THEN UninitializeLoop(steps, 0, tr)
    ELSE {[steps |-> <<Head(steps)>> \o u.steps, trace |-> u.trace,
           escaped |-> u.escaped] :
             u \in UninitializeLoop(Tail(steps), Len(steps) - 1, tr)}

\* SequentialRaii::uninitialize, called with tr already recorded.
uninitialize(steps, tr) == UninitializeLoop(steps, Len(steps), tr)

\* initialize() returning false at the first failure without the call of
\* uninitialize().
RECURSIVE InitializeLoop_noRollback(_, _, _)
InitializeLoop_noRollback(steps, i, tr) ==
    IF i > Len(steps)
    THEN {[steps |-> steps, trace |-> tr, ret |-> TRUE, escaped |-> FALSE]}
    ELSE UNION {
        LET tr2 == Invocation(tr, "init", r)
            steps2 == [steps EXCEPT ![i] = r.step]
        IN IF r.escaped \/ ~r.ret
           THEN {[steps |-> steps2, trace |-> tr2, ret |-> FALSE,
                  escaped |-> r.escaped]}
           ELSE InitializeLoop_noRollback(steps2, i + 1, tr2)
        : r \in {StepInit(steps[i], o) : o \in InitOutcomes}}

\* The loop of initialize(): index i up to the end.  The first step whose
\* init() returns false ends the loop with a call of uninitialize().
RECURSIVE InitializeLoop(_, _, _)
InitializeLoop(steps, i, tr) ==
    IF i > Len(steps)
    THEN {[steps |-> steps, trace |-> tr, ret |-> TRUE, escaped |-> FALSE]}
    ELSE UNION {
        LET tr2 == Invocation(tr, "init", r)
            steps2 == [steps EXCEPT ![i] = r.step]
        IN IF r.escaped
           THEN {[steps |-> steps2, trace |-> tr2, ret |-> FALSE,
                  escaped |-> TRUE]}
           ELSE IF ~r.ret
           THEN {[steps |-> u.steps, trace |-> u.trace, ret |-> FALSE,
                  escaped |-> u.escaped] : u \in uninitialize(steps2, tr2)}
           ELSE InitializeLoop(steps2, i + 1, tr2)
        : r \in {StepInit(steps[i], o) : o \in InitOutcomes}}

\* initialize() with a loop that begins at the second step.
initialize_fromSecond(steps) == InitializeLoop(steps, 2, <<>>)

\* initialize() calling uninitialize() after the loop too.
initialize_alwaysRollback(steps) ==
    UNION {IF r.ret /\ ~r.escaped
           THEN {[steps |-> u.steps, trace |-> u.trace, ret |-> TRUE,
                  escaped |-> u.escaped] : u \in uninitialize(r.steps, r.trace)}
           ELSE {r}
           : r \in InitializeLoop(steps, 1, <<>>)}

\* SequentialRaii::initialize
initialize(steps) == InitializeLoop(steps, 1, <<>>)

\* `m_steps = std::move(rhs.m_steps)` in place of the swap: a takes the
\* vector of b and b is left empty.
Swap_moveFrom(f, a, b) ==
    [x \in DOMAIN f |-> IF x = a THEN f[b] ELSE IF x = b THEN <<>> ELSE f[x]]

\* A swap that rebuilds the steps it hands to a: their flags are lost.
Swap_loseFlags(f, a, b) ==
    [x \in DOMAIN f |->
        IF x = a THEN [i \in 1..Len(f[b]) |-> NewStep(f[b][i].id)]
        ELSE IF x = b THEN f[a] ELSE f[x]]

\* std::swap(m_steps, rhs.m_steps) between objects a and b.
Swap(f, a, b) ==
    [x \in DOMAIN f |-> IF x = a THEN f[b] ELSE IF x = b THEN f[a] ELSE f[x]]

\* The record of a call: the operation, the object it is called on (dst), the
\* argument of a move (src), the result, whether an exception left the call,
\* the vectors before the call (pre), and the call made before this one
\* with the number of lambdas it invoked.
Call(op, dst, src, ret, escaped) ==
    [op |-> op, dst |-> dst, src |-> src, ret |-> ret, escaped |-> escaped,
     pre |-> m_steps,
     prev |-> [op |-> last.op, dst |-> last.dst, src |-> last.src,
               ret |-> last.ret, calls |-> Len(trace)]]

----------------------------------------------------------------------------
Init ==
    /\ status = [s \in Seqs |-> "unborn"]
    /\ m_steps = [s \in Seqs |-> <<>>]
    /\ nextId = 0
    /\ last = [op |-> "none", dst |-> "seqraii", src |-> "seqraii", ret |-> TRUE,
               escaped |-> FALSE, pre |-> [s \in Seqs |-> <<>>],
               prev |-> [op |-> "none", dst |-> "seqraii", src |-> "seqraii",
                         ret |-> TRUE, calls |-> 0]]
    /\ trace = <<>>
    /\ balance = [id \in 1..MaxSteps |-> 0]

\* SequentialRaii::SequentialRaii()
Construct(s) ==
    /\ status[s] = "unborn"
    /\ status' = [status EXCEPT ![s] = "alive"]
    /\ m_steps' = [m_steps EXCEPT ![s] = <<>>]
    /\ last' = Call("construct", s, s, TRUE, FALSE)
    /\ trace' = <<>>
    /\ UNCHANGED <<nextId, balance>>

\* A destructor that does not call uninitialize().
Destroy_noUninit(s) ==
    /\ status[s] = "alive"
    /\ m_steps' = [m_steps EXCEPT ![s] = <<>>]
    /\ trace' = <<>>
    /\ last' = Call("destroy", s, s, TRUE, FALSE)
    /\ status' = [status EXCEPT ![s] = "dead"]
    /\ UNCHANGED <<nextId, balance>>

\* SequentialRaii::~SequentialRaii
Destroy(s) ==
    /\ status[s] = "alive"
    /\ \E u \in uninitialize(m_steps[s], <<>>) :
            /\ m_steps' = [m_steps EXCEPT ![s] = <<>>]
            /\ trace' = u.trace
            /\ last' = Call("destroy", s, s, TRUE, u.escaped)
    /\ status' = [status EXCEPT ![s] = "dead"]
    /\ balance' = Settle(balance, trace')
    /\ UNCHANGED nextId

\* SequentialRaii::SequentialRaii(SequentialRaii&& rhs): d is constructed
\* from s.  m_steps of d is default-constructed before the body runs.
MoveConstruct(d, s) ==
    /\ status[d] = "unborn"
    /\ status[s] = "alive"
    /\ \E u \in uninitialize(<<>>, <<>>) :
         LET after == [m_steps EXCEPT ![d] = u.steps]
         IN /\ m_steps' = Swap(after, d, s)
            /\ trace' = u.trace
            /\ last' = Call("move_construct", d, s, TRUE, u.escaped)
    /\ status' = [status EXCEPT ![d] = "alive"]
    /\ balance' = Settle(balance, trace')
    /\ UNCHANGED nextId

\* A move assignment that swaps first and calls uninitialize() afterwards,
\* on the steps it has just received.
MoveAssign_swapFirst(d, s) ==
    /\ status[d] = "alive"
    /\ status[s] = "alive"
    /\ \E u \in uninitialize(Swap(m_steps, d, s)[d], <<>>) :
            /\ m_steps' = [Swap(m_steps, d, s) EXCEPT ![d] = u.steps]
            /\ trace' = u.trace
            /\ last' = Call("move_assign", d, s, TRUE, u.escaped)
    /\ balance' = Settle(balance, trace')
    /\ UNCHANGED <<status, nextId>>

\* A move assignment that only swaps.
MoveAssign_noUninit(d, s) ==
    /\ status[d] = "alive"
    /\ status[s] = "alive"
    /\ m_steps' = Swap(m_steps, d, s)
    /\ trace' = <<>>
    /\ last' = Call("move_assign", d, s, TRUE, FALSE)
    /\ UNCHANGED <<status, nextId, balance>>

\* SequentialRaii::operator=(SequentialRaii&& rhs): d = std::move(s).
MoveAssign(d, s) ==
    /\ status[d] = "alive"
    /\ status[s] = "alive"
    /\ \E u \in uninitialize(m_steps[d], <<>>) :
         LET after == [m_steps EXCEPT ![d] = u.steps]
         IN /\ m_steps' = Swap(after, d, s)
            /\ trace' = u.trace
            /\ last' = Call("move_assign", d, s, TRUE, u.escaped)
    /\ balance' = Settle(balance, trace')
    /\ UNCHANGED <<status, nextId>>

\* SequentialRaii::addStep.  The one-argument overload calls this one with
\* an empty uninitialization lambda, one that returns whenever invoked.
AddStep(s) ==
    /\ status[s] = "alive"
    /\ nextId < MaxSteps
    /\ nextId' = nextId + 1
    /\ m_steps' = [m_steps EXCEPT ![s] = Append(@, NewStep(nextId + 1))]
    /\ last' = Call("addStep", s, s, TRUE, FALSE)
    /\ trace' = <<>>
    /\ UNCHANGED <<status, balance>>

\* A call of initialize() on s.
Initialize(s) ==
    /\ status[s] = "alive"
    /\ \E r \in initialize(m_steps[s]) :
            /\ m_steps' = [m_steps EXCEPT ![s] = r.steps]
            /\ trace' = r.trace
            /\ last' = Call("initialize", s, s, r.ret, r.escaped)
    /\ balance' = Settle(balance, trace')
    /\ UNCHANGED <<status, nextId>>

\* A call of uninitialize() on s.
Uninitialize(s) ==
    /\ status[s] = "alive"
    /\ \E u \in uninitialize(m_steps[s], <<>>) :
            /\ m_steps' = [m_steps EXCEPT ![s] = u.steps]
            /\ trace' = u.trace
            /\ last' = Call("uninitialize", s, s, TRUE, u.escaped)
    /\ balance' = Settle(balance, trace')
    /\ UNCHANGED <<status, nextId>>

Next ==
    \/ \E s \in Seqs : Construct(s)
    \/ \E s \in Seqs : Destroy(s)
    \/ \E d \in Seqs, s \in Seqs : MoveConstruct(d, s)
    \/ \E d \in Seqs, s \in Seqs : MoveAssign(d, s)
    \/ \E s \in Seqs : AddStep(s)
    \/ \E s \in Seqs : Initialize(s)
    \/ \E s \in Seqs : Uninitialize(s)

Spec == Init /\ [][Next]_vars

TypeOK ==
    /\ status \in [Seqs -> {"unborn", "alive", "dead"}]
    /\ nextId \in 0..MaxSteps
    /\ balance \in [1..MaxSteps -> Int]
    /\ trace \in Seq([kind : {"init", "uninit"}, id : 1..MaxSteps,
                      outcome : InitOutcomes \cup UninitOutcomes])
    /\ \A s \in Seqs : IdSet(m_steps[s]) \subseteq 1..nextId

----------------------------------------------------------------------------
\* Vocabulary of the properties: the last call, its object, before and after.

Obj == last.dst
PreSteps == last.pre[last.dst]
NowSteps == m_steps[last.dst]

AllFresh(q) == \A i \in 1..Len(q) : ~q[i].m_isInitialized
AllSet(q) == \A i \in 1..Len(q) : q[i].m_isInitialized

\* Position of the step object id in the vector q.
IndexOf(q, id) == CHOOSE i \in 1..Len(q) : q[i].id = id

\* Positions of the trace where an initialization lambda failed.
FailPos == {p \in 1..Len(trace) :
               trace[p].kind = "init" /\ trace[p].outcome \in {"false", "throw"}}
ThrowPos == {p \in FailPos : trace[p].outcome = "throw"}

\* What a forward run up to step k and a rollback from step k-1 invoke.
ForwardCalls(q, k) == [i \in 1..k |-> <<"init", q[i].id>>]
BackwardCalls(q, k) == [j \in 1..k |-> <<"uninit", q[k + 1 - j].id>>]

Moved == last.op \in {"move_construct", "move_assign"}

----------------------------------------------------------------------------
\* C1: a call of initialize() on N fresh steps whose initialization lambdas
\* all return true invokes the initialization lambdas of steps 0..N-1 in
\* registration order, each exactly once (and nothing else).
C1_InitOrder ==
    (/\ last.op = "initialize"
     /\ AllFresh(PreSteps)
     /\ \A p \in 1..Len(trace) :
            trace[p].kind = "init" => trace[p].outcome = "true")
    => Calls(trace) = ForwardCalls(PreSteps, Len(PreSteps))

C1_Witness ==
    /\ last.op = "initialize"
    /\ AllFresh(PreSteps)
    /\ Len(PreSteps) >= 3
    /\ last.ret
    /\ Len(trace) = Len(PreSteps)

\* C2: when initialize() runs on N fresh steps and step k is the first whose
\* initialization lambda fails, the call returns false after invoking the
\* initialization lambdas of steps 0..k and then, after the failing one, the
\* uninitialization lambdas of steps k-1 down to 0, each exactly once.
C2_RollbackOrder ==
    (/\ last.op = "initialize"
     /\ AllFresh(PreSteps)
     /\ FailPos # {})
    => LET p == CHOOSE x \in FailPos : \A y \in FailPos : x <= y
           k == IndexOf(PreSteps, trace[p].id)
       IN /\ ~last.ret
          /\ p = k
          /\ Calls(trace) = ForwardCalls(PreSteps, k) \o BackwardCalls(PreSteps, k - 1)

C2_Witness ==
    /\ last.op = "initialize"
    /\ AllFresh(PreSteps)
    /\ ~last.ret
    /\ Len(trace) = 5
    /\ trace[3].kind = "init" /\ trace[3].outcome = "false"
    /\ trace[4].kind = "uninit" /\ trace[5].kind = "uninit"

\* C3: when the initialization lambda of step k fails in a call of
\* initialize(), by returning false or by throwing, that lambda is invoked
\* exactly once in the call and no initialization lambda of a step after k
\* is invoked.
C3_StopAtFailure ==
    last.op = "initialize" =>
        \A p \in FailPos :
            LET k == IndexOf(PreSteps, trace[p].id)
            IN /\ \A q \in 1..Len(trace) :
                      (trace[q].kind = "init" /\ trace[q].id = trace[p].id) => q = p
               /\ \A q \in 1..Len(trace) :
                      trace[q].kind = "init" => IndexOf(PreSteps, trace[q].id) <= k

C3_Witness ==
    /\ last.op = "initialize"
    /\ ~AllFresh(PreSteps)
    /\ \E p \in FailPos : IndexOf(PreSteps, trace[p].id) < Len(PreSteps)

\* C4: a call of initialize() in which the failing initialization lambda
\* throws and the call in which it returns false instead invoke the same
\* lambdas in the same order, both return false and end with the same flags:
\* the result with the failure of the other kind at the same place is a
\* result of initialize() on the same steps.
C4_ThrowAsFalse ==
    last.op = "initialize" =>
        \A p \in FailPos :
            LET other == IF trace[p].outcome = "throw" THEN "false" ELSE "throw"
            IN /\ ~last.ret
               /\ [steps |-> NowSteps,
                   trace |-> [trace EXCEPT ![p].outcome = other],
                   ret |-> last.ret,
                   escaped |-> last.escaped] \in initialize(PreSteps)

C4_Witness ==
    /\ last.op = "initialize"
    /\ \E p \in ThrowPos : p >= 2 /\ Len(trace) > p

\* C5: a call of uninitialize() invokes the uninitialization lambdas of
\* exactly the steps whose flag is set when it is called, each once, in
\* reverse registration order, and no lambda of a step whose flag is clear.
C5_UninitSucceededOnly ==
    last.op = "uninitialize" =>
        LET set == Select(PreSteps, TRUE)
        IN Calls(trace) = BackwardCalls(set, Len(set))

C5_Witness ==
    /\ last.op = "uninitialize"
    /\ Len(trace) >= 2
    /\ ~AllSet(PreSteps)

\* C6: a call of uninitialize() made right after a call of uninitialize() on
\* the same object invokes no lambda and leaves the vector and every flag as
\* they were.
C6_UninitIdempotent ==
    (/\ last.op = "uninitialize"
     /\ last.prev.op = "uninitialize"
     /\ last.prev.dst = Obj)
    => /\ trace = <<>>
       /\ m_steps = last.pre

C6_Witness ==
    /\ last.op = "uninitialize"
    /\ last.prev.op = "uninitialize"
    /\ last.prev.dst = Obj
    /\ last.prev.calls >= 2

\* C7: when initialize() returns true the flag of every step is set; when it
\* returns false the flag of every step is clear; on an empty vector it
\* returns true.
C7_AllOrNothing ==
    last.op = "initialize" =>
        /\ last.ret => AllSet(NowSteps)
        /\ ~last.ret => AllFresh(NowSteps)
        /\ PreSteps = <<>> => last.ret

C7_Witness ==
    /\ last.op = "initialize"
    /\ ~last.ret
    /\ \E p \in 1..Len(trace) : trace[p].kind = "uninit"
    /\ \E i \in 1..Len(PreSteps) : PreSteps[i].m_isInitialized

\* C8: after a call of initialize() that returned false, the next call on
\* the object, if it is uninitialize() or the destructor, invokes no
\* uninitialization lambda.
C8_NoUndoAfterFailure ==
    (/\ last.op \in {"uninitialize", "destroy"}
     /\ last.prev.op = "initialize"
     /\ ~last.prev.ret
     /\ last.prev.dst = Obj)
    => trace = <<>>

C8_Witness ==
    /\ last.op = "destroy"
    /\ last.prev.op = "initialize"
    /\ ~last.prev.ret
    /\ last.prev.dst = Obj
    /\ last.prev.calls >= 4

\* C9: no exception of an initialization lambda leaves initialize(): the
\* call ends with a boolean result, and a lambda that throws counts as one
\* that returned false: the call returns false, the flag of its step stays
\* clear and its uninitialization lambda is not invoked.
C9_InitNeverThrows ==
    last.op = "initialize" =>
        /\ ~last.escaped
        /\ last.ret \in BOOLEAN
        /\ \A p \in ThrowPos :
              /\ ~last.ret
              /\ ~NowSteps[IndexOf(NowSteps, trace[p].id)].m_isInitialized
              /\ \A q \in 1..Len(trace) :
                    ~(trace[q].kind = "uninit" /\ trace[q].id = trace[p].id)

C9_Witness ==
    /\ last.op = "initialize"
    /\ ThrowPos = {1}
    /\ Len(PreSteps) >= 2

\* C10, as stated: after a move from a source S to another object D, S holds
\* an empty vector.
C10_SourceEmpty ==
    (Moved /\ last.src # last.dst) => m_steps[last.src] = <<>>

\* C10, amended: after a move construction the source holds an empty vector;
\* after a move assignment the source holds the step objects the destination
\* held before, in the same order, each with its flag clear.
C10_SourceHoldsOldDest ==
    /\ last.op = "move_construct" => m_steps[last.src] = <<>>
    /\ last.op = "move_assign" =>
          /\ Ids(m_steps[last.src]) = Ids(last.pre[last.dst])
          /\ AllFresh(m_steps[last.src])

C10_Witness ==
    /\ last.op = "move_assign"
    /\ last.src # last.dst
    /\ Len(last.pre[last.dst]) >= 2
    /\ AllSet(last.pre[last.dst])
    /\ Len(last.pre[last.src]) >= 1
    /\ m_steps[last.src] # <<>>

\* C11: a move assignment into D first tears D down: it invokes the
\* uninitialization lambdas of exactly the steps of D whose flag was set,
\* each once, in reverse registration order, and nothing else; the steps D
\* then receives from another object S are those S held, as S held them, so
\* the teardown came before the steps changed owner.
C11_MoveAssignTearsDownFirst ==
    last.op = "move_assign" =>
        LET set == Select(last.pre[last.dst], TRUE)
        IN /\ Calls(trace) = BackwardCalls(set, Len(set))
           /\ last.src # last.dst => m_steps[last.dst] = last.pre[last.src]

C11_Witness ==
    /\ last.op = "move_assign"
    /\ last.src # last.dst
    /\ Len(trace) = 2
    /\ last.pre[last.src] # <<>>
    /\ AllSet(last.pre[last.src])

\* C12: a move from a source S to another object D invokes no lambda of a
\* step of S and hands the steps of S to D in the same order with the same
\* flags: a call of uninitialize() on D after the move invokes the
\* uninitialization lambdas of exactly the steps whose flag was set in S
\* before the move, in reverse registration order.
C12_MoveKeepsSteps ==
    (Moved /\ last.src # last.dst) =>
        LET set == Select(last.pre[last.src], TRUE)
        IN /\ \A p \in 1..Len(trace) : trace[p].id \notin IdSet(last.pre[last.src])
           /\ m_steps[last.dst] = last.pre[last.src]
           /\ \A u \in uninitialize(m_steps[last.dst], <<>>) :
                 Calls(u.trace) = BackwardCalls(set, Len(set))

C12_Witness ==
    /\ last.op = "uninitialize"
    /\ last.prev.op = "move_construct"
    /\ last.prev.dst = Obj
    /\ last.prev.src # last.prev.dst
    /\ Len(trace) >= 2
    /\ ~AllSet(PreSteps)

\* C13: the teardown of the source right after a move (a call of
\* uninitialize() on it, or its destructor) invokes no uninitialization
\* lambda, whatever source and destination held before the move.
C13_SourceTeardownIsNoOp ==
    (/\ last.op \in {"uninitialize", "destroy"}
     /\ last.prev.op \in {"move_construct", "move_assign"}
     /\ Obj = last.prev.src)
    => trace = <<>>

C13_Witness ==
    /\ last.op = "destroy"
    /\ last.prev.op = "move_assign"
    /\ Obj = last.prev.src
    /\ last.prev.src # last.prev.dst
    /\ last.prev.calls >= 2
    /\ Len(PreSteps) >= 2

\* Whether step id is owned by some object of f with its flag set.
FlagIn(f, id) ==
    \E s \in Seqs : \E i \in 1..Len(f[s]) :
        f[s][i].id = id /\ f[s][i].m_isInitialized

\* The flag of step id just before the p-th invocation of the last call, if
\* only a successful initialization lambda sets it and only an
\* uninitialization lambda clears it.
RECURSIVE FlagBefore(_, _)
FlagBefore(id, p) ==
    IF p = 1 THEN FlagIn(last.pre, id)
    ELSE IF trace[p - 1].id = id
         THEN trace[p - 1].kind = "init" /\ trace[p - 1].outcome = "true"
         ELSE FlagBefore(id, p - 1)

\* The set flags of q are those of its first k steps, for some k.
IsPrefix(q) ==
    \E k \in 0..Len(q) : \A i \in 1..Len(q) : q[i].m_isInitialized <=> i <= k

\* C14: the destructor invokes the uninitialization lambda of every step the
\* object owns whose flag is set, once each, in reverse registration order;
\* and when no object is alive any more, every step has had as many
\* invocations of its uninitialization lambda as successful invocations of
\* its initialization lambda.
C14_NoLeak ==
    /\ last.op = "destroy" =>
          LET set == Select(PreSteps, TRUE)
          IN Calls(trace) = BackwardCalls(set, Len(set))
    /\ (\A s \in Seqs : status[s] # "alive") =>
          \A id \in 1..MaxSteps : balance[id] = 0

C14_Witness ==
    /\ \A s \in Seqs : status[s] = "dead"
    /\ last.op = "destroy"
    /\ Len(trace) >= 2
    /\ ~AllSet(PreSteps)

\* C15: in every state between two calls, the steps of every object whose
\* flag is set are the first k steps of its vector, for some k.
C15_ConsecutivePrefix ==
    \A s \in Seqs : IsPrefix(m_steps[s])

C15_Witness ==
    /\ Moved
    /\ last.src # last.dst
    /\ \E s \in Seqs :
          /\ Len(m_steps[s]) = 3
          /\ m_steps[s][2].m_isInitialized
          /\ ~m_steps[s][3].m_isInitialized

\* C16: for every step, the flag is set only by an invocation of its
\* initialization lambda that returned true and cleared only by a teardown
\* that passes its uninitialization step; the uninitialization lambda is
\* invoked only while the flag is set; and the successful initializations
\* minus the uninitializations are 1 while the flag is set and 0 otherwise.
C16_StepPairing ==
    /\ \A id \in 1..MaxSteps :
          /\ balance[id] = IF FlagIn(m_steps, id) THEN 1 ELSE 0
          /\ FlagBefore(id, Len(trace) + 1) = FlagIn(m_steps, id)
    /\ \A p \in 1..Len(trace) :
          /\ trace[p].kind = "uninit" => FlagBefore(trace[p].id, p)
          /\ trace[p].kind = "init" => ~FlagBefore(trace[p].id, p)

C16_Witness ==
    /\ last.op = "initialize"
    /\ ~last.ret
    /\ Len(trace) >= 3
    /\ \E id \in 1..MaxSteps : balance[id] = 1

\* Positions of the trace where an uninitialization lambda threw.
UndoThrowPos == {p \in 1..Len(trace) :
                    trace[p].kind = "uninit" /\ trace[p].outcome = "throw"}

\* The entries of one kind in a trace.
RECURSIVE OfKind(_, _)
OfKind(tr, kind) ==
    IF tr = <<>> THEN <<>>
    ELSE IF Head(tr).kind = kind
         THEN <<Head(tr)>> \o OfKind(Tail(tr), kind)
         ELSE OfKind(Tail(tr), kind)

\* C17: an exception of an uninitialization lambda does not leave
\* uninitialize() and does not end the teardown: the flag of the throwing
\* step is cleared, and the uninitialization lambdas of the set steps before
\* it are still invoked, in reverse order, once each.
C17_UndoThrowSwallowed ==
    (last.op = "uninitialize" /\ UndoThrowPos # {}) =>
        LET set == Select(PreSteps, TRUE)
        IN /\ ~last.escaped
           /\ AllFresh(NowSteps)
           /\ Ids(NowSteps) = Ids(PreSteps)
           /\ Calls(trace) = BackwardCalls(set, Len(set))

C17_Witness ==
    /\ last.op = "uninitialize"
    /\ Len(trace) = 3
    /\ trace[1].outcome = "throw"
    /\ trace[2].outcome = "throw"
    /\ trace[3].outcome = "return"

\* C18: a call of initialize() in which no initialization lambda fails
\* returns true and invokes no uninitialization lambda; uninitialization
\* lambdas run inside initialize() only when an initialization lambda failed.
C18_NoUndoOnSuccess ==
    last.op = "initialize" =>
        /\ FailPos = {} => (last.ret /\ OfKind(trace, "uninit") = <<>>)
        /\ last.ret => OfKind(trace, "uninit") = <<>>

C18_Witness ==
    /\ last.op = "initialize"
    /\ last.ret
    /\ Len(trace) = 2
    /\ Len(PreSteps) = 3
    /\ PreSteps[1].m_isInitialized

\* C19: initialize() invokes the initialization lambda only of steps whose
\* flag is clear.  A call of initialize() right after one that returned true
\* on the same object invokes no lambda, returns true and changes no flag;
\* when all steps but the last, appended one have their flag set, only the
\* initialization lambda of that last step is invoked.
C19_InitSkipsSucceeded ==
    last.op = "initialize" =>
        /\ \A p \in 1..Len(trace) :
              trace[p].kind = "init" =>
                  ~PreSteps[IndexOf(PreSteps, trace[p].id)].m_isInitialized
        /\ (last.prev.op = "initialize" /\ last.prev.ret /\ last.prev.dst = Obj)
              => (trace = <<>> /\ last.ret /\ m_steps = last.pre)
        /\ (/\ PreSteps # <<>>
            /\ AllSet(SubSeq(PreSteps, 1, Len(PreSteps) - 1))
            /\ ~PreSteps[Len(PreSteps)].m_isInitialized)
              => Calls(OfKind(trace, "init"))
                     = << <<"init", PreSteps[Len(PreSteps)].id>> >>

C19_Witness ==
    /\ last.op = "initialize"
    /\ last.prev.op = "initialize"
    /\ last.prev.ret
    /\ last.prev.dst = Obj
    /\ last.prev.calls >= 2
    /\ Len(PreSteps) = 3

\* C20: a call of initialize() right after a failed initialize() or after
\* uninitialize() on the same object finds every flag clear and starts over:
\* it invokes the initialization lambdas in registration order from step 0,
\* up to the first that fails, then the uninitialization lambdas of the
\* steps before that one in reverse order; it returns true with every flag
\* set or false with every flag clear.
C20_RestartFromFirst ==
    (/\ last.op = "initialize"
     /\ last.prev.dst = Obj
     /\ \/ last.prev.op = "uninitialize"
        \/ last.prev.op = "initialize" /\ ~last.prev.ret)
    => LET k == Len(OfKind(trace, "init"))
       IN /\ AllFresh(PreSteps)
          /\ PreSteps # <<>> => (k >= 1 /\ trace[1].id = PreSteps[1].id)
          /\ Calls(trace) = ForwardCalls(PreSteps, k)
                 \o (IF last.ret THEN <<>> ELSE BackwardCalls(PreSteps, k - 1))
          /\ last.ret <=> FailPos = {}
          /\ last.ret => (k = Len(PreSteps) /\ AllSet(NowSteps))
          /\ ~last.ret => AllFresh(NowSteps)

C20_Witness ==
    /\ last.op = "initialize"
    /\ last.prev.dst = Obj
    /\ last.prev.op = "initialize"
    /\ ~last.prev.ret
    /\ last.prev.calls >= 5
    /\ ~last.ret
    /\ Len(trace) = 5
====
